---- MODULE Spec2Model ----
(***************************************************************************)
(* The Stripe IR of tile/stripe/stripe.h: the Statement hierarchy with its *)
(* kind tags and Downcast helpers, the shared ownership of statement nodes *)
(* through Block::stmts, the Constant constructors, the Annotation         *)
(* extension point, the value types Index / Constraint / BufferAccess with *)
(* their operator==, Block::ref_ins / ref_outs and the FromProto/IntoProto *)
(* bridge.                                                                 *)
(***************************************************************************)
EXTENDS Integers, Sequences, FiniteSets, TLC

VARIABLES
  heap,     \* statement nodes: node id -> the object, or Free once destroyed
  stmts,    \* the root Block's stmts: a sequence of shared_ptr<Statement> (node ids)
  handles,  \* node id -> number of shared_ptr copies held outside stmts
  made,     \* node id -> the value its Constant constructor was given (0: none)
  last,     \* the last operation and what it returned
  anns,     \* a Block's annotations: name -> the Annotation object, or NoAnn
  annLast,  \* the last BoolAnnotation::Downcast and what it returned
  eqIn,     \* the constructor arguments of the two values operator== is given
  eqOut,    \* the two values constructed and the result of operator==
  refs,     \* a Block's refs
  refsLast, \* the last ref_ins / ref_outs call and what it returned
  blk,      \* the Block tree a pass builds and hands to IntoProto
  wire,     \* the wire message (proto::Block) in flight
  dec       \* what FromProto made of the wire message

heapVars == <<heap, stmts, handles, made, last>>
annVars  == <<anns, annLast>>
eqVars   == <<eqIn, eqOut>>
refVars  == <<refs, refsLast>>
protoVars == <<blk, wire, dec>>
vars     == <<heap, stmts, handles, made, last, anns, annLast, eqIn, eqOut, refs, refsLast,
             blk, wire, dec>>

----------------------------------------------------------------------------
(* Bounds of the model. *)
MaxStmts   == 2   \* length of Block::stmts
MaxHandles == 1   \* shared_ptr copies held outside stmts (worklists, locals)

Nodes     == 1..MaxStmts   \* addresses of the statement nodes
Names     == {"a", "b"}
IntVals   == {5, 7}     \* int64_t values
FloatVals == {25}       \* double values, in tenths
Garbage   == {0, 9}     \* what an uninitialized member may hold

----------------------------------------------------------------------------
(* enum class StmtKind: the enumerators' values. *)
StmtKind_Load      == 0
StmtKind_Store     == 1
StmtKind_Constant  == 2
StmtKind_Special   == 3
StmtKind_Intrinsic == 4
StmtKind_Block     == 5

StmtKind == {StmtKind_Load, StmtKind_Store, StmtKind_Constant,
             StmtKind_Special, StmtKind_Intrinsic, StmtKind_Block}

(* enum class ConstType. *)
ConstType_Integer == 0
ConstType_Float   == 1

(* The runtime types of a Statement object (its vtable). *)
StmtClasses == {"Load", "Store", "Constant", "Special", "Intrinsic", "Block"}

(* The tag each runtime type is meant to carry. *)
TagOf(cls) ==
  CASE cls = "Load"      -> StmtKind_Load
    [] cls = "Store"     -> StmtKind_Store
    [] cls = "Constant"  -> StmtKind_Constant
    [] cls = "Special"   -> StmtKind_Special
    [] cls = "Intrinsic" -> StmtKind_Intrinsic
    [] cls = "Block"     -> StmtKind_Block

(* A destroyed (or never allocated) node. *)
Free == [cls |-> "free"]

(* The null shared_ptr a failed Downcast returns: the TypeMismatch condition. *)
TypeMismatch == 0

----------------------------------------------------------------------------
(* Constructors. *)

\* A plausible slip: the initializer list crosses the two names.
NewLoadMutant(from, into) == [cls |-> "Load", from |-> into, into |-> from]

\* Load(from, into)
NewLoad(from, into) == [cls |-> "Load", from |-> from, into |-> into]

\* Store(from, into)
NewStore(from, into) == [cls |-> "Store", from |-> from, into |-> into]

\* Intrinsic has no user constructor: its strings and vectors start empty.
NewIntrinsic == [cls |-> "Intrinsic", name |-> "", inputs |-> <<>>, outputs |-> <<>>]

\* Special has no user constructor.
NewSpecial ==
  [cls |-> "Special", name |-> "", params |-> <<>>, inputs |-> <<>>, outputs |-> <<>>]

\* An empty std::map.
EmptyMap == [k \in {} |-> ""]

\* Block has no user constructor: its strings and containers start empty.
NewBlock ==
  [cls |-> "Block", name |-> "", comments |-> "", idxs |-> <<>>, constraints |-> <<>>,
   decls |-> EmptyMap, refs |-> <<>>, stmts |-> <<>>, annotations |-> EmptyMap]

\* A plausible slip: the integer constructor tags the constant Float.
NewConstantIntMutant(name, value, mem) ==
  [cls |-> "Constant", name |-> name, type |-> ConstType_Float,
   iconst |-> value, fconst |-> mem, init |-> {"iconst"}]

\* Constant(name, int64_t value): the initializer list sets name, type and
\* iconst; fconst is left uninitialized and holds what the memory held (mem).
\* init names the value members an initializer wrote.
NewConstantInt(name, value, mem) ==
  [cls |-> "Constant", name |-> name, type |-> ConstType_Integer,
   iconst |-> value, fconst |-> mem, init |-> {"iconst"}]

\* Constant(name, double value): the initializer list sets name, type and
\* fconst; iconst is left uninitialized.
NewConstantFloat(name, value, mem) ==
  [cls |-> "Constant", name |-> name, type |-> ConstType_Float,
   iconst |-> mem, fconst |-> value, init |-> {"fconst"}]

----------------------------------------------------------------------------
(* kind(): one override per concrete statement type. *)
LoadKind(self)     == StmtKind_Load
ConstantKind(self) == StmtKind_Constant
SpecialKind(self)  == StmtKind_Special
BlockKind(self)    == StmtKind_Block

\* A plausible slip: an override copied from Load and left with its tag.
StoreKindMutant(self) == StmtKind_Load

\* A plausible slip: an override copied from Special and left with its tag.
IntrinsicKindMutant(self) == StmtKind_Special

IntrinsicKind(self) == StmtKind_Intrinsic

StoreKind(self) == StmtKind_Store

\* Statement::kind(): virtual dispatch on the runtime type.
kind(self) ==
  CASE self.cls = "Load"      -> LoadKind(self)
    [] self.cls = "Store"     -> StoreKind(self)
    [] self.cls = "Constant"  -> ConstantKind(self)
    [] self.cls = "Special"   -> SpecialKind(self)
    [] self.cls = "Intrinsic" -> IntrinsicKind(self)
    [] self.cls = "Block"     -> BlockKind(self)

----------------------------------------------------------------------------
(* Downcast: succeeds with a handle to the same node when the kind tag is  *)
(* the target's, and fails with the null handle otherwise.                 *)

LoadDowncast(h, stmt) ==
  IF kind(h[stmt]) = StmtKind_Load THEN stmt ELSE TypeMismatch
StoreDowncast(h, stmt) ==
  IF kind(h[stmt]) = StmtKind_Store THEN stmt ELSE TypeMismatch
IntrinsicDowncast(h, stmt) ==
  IF kind(h[stmt]) = StmtKind_Intrinsic THEN stmt ELSE TypeMismatch
SpecialDowncast(h, stmt) ==
  IF kind(h[stmt]) = StmtKind_Special THEN stmt ELSE TypeMismatch
ConstantDowncast(h, stmt) ==
  IF kind(h[stmt]) = StmtKind_Constant THEN stmt ELSE TypeMismatch
BlockDowncast(h, stmt) ==
  IF kind(h[stmt]) = StmtKind_Block THEN stmt ELSE TypeMismatch

\* The static Downcast of the class the caller names.
DowncastTo(K, h, stmt) ==
  CASE K = "Load"      -> LoadDowncast(h, stmt)
    [] K = "Store"     -> StoreDowncast(h, stmt)
    [] K = "Constant"  -> ConstantDowncast(h, stmt)
    [] K = "Special"   -> SpecialDowncast(h, stmt)
    [] K = "Intrinsic" -> IntrinsicDowncast(h, stmt)
    [] K = "Block"     -> BlockDowncast(h, stmt)

----------------------------------------------------------------------------
(* Shared ownership: std::shared_ptr<Statement>. *)

Occurrences(st, n) == Cardinality({i \in 1..Len(st) : st[i] = n})

\* The number of handles held outside stmts, over the nodes 1..k.
RECURSIVE HeldUpTo(_, _)
HeldUpTo(hd, k) == IF k = 0 THEN 0 ELSE hd[k] + HeldUpTo(hd, k - 1)

Held(hd) == HeldUpTo(hd, MaxStmts)

\* shared_ptr::use_count(): the holders of node n.
UseCount(st, hd, n) == Occurrences(st, n) + hd[n]

\* A plausible slip: the vector owns its nodes alone, so dropping a node from
\* it destroys the node whatever else refers to it.
ReclaimMutant(h, st, hd) ==
  [n \in Nodes |-> IF Occurrences(st, n) = 0 THEN Free ELSE h[n]]

\* ~shared_ptr: the node is destroyed when its last holder lets go.
Reclaim(h, st, hd) ==
  [n \in Nodes |-> IF UseCount(st, hd, n) = 0 THEN Free ELSE h[n]]

RemoveAt(st, i) == SubSeq(st, 1, i - 1) \o SubSeq(st, i + 1, Len(st))

NoEvent == [op |-> "none", K |-> "", node |-> 0, before |-> Free, out |-> 0, arg |-> 0]

Event(op, K, node, before, out, arg) ==
  [op |-> op, K |-> K, node |-> node, before |-> before, out |-> out, arg |-> arg]

HasFree == \E n \in Nodes : heap[n] = Free
FreshId == CHOOSE n \in Nodes : heap[n] = Free /\ \A m \in Nodes : m < n => heap[m] # Free

\* std::make_shared<T>(...) followed by stmts.push_back(...).
Push(obj, op, arg) ==
  /\ HasFree
  /\ Len(stmts) < MaxStmts
  /\ heap' = [heap EXCEPT ![FreshId] = obj]
  /\ stmts' = Append(stmts, FreshId)
  /\ made' = [made EXCEPT ![FreshId] = arg]
  /\ last' = Event(op, "", FreshId, obj, FreshId, arg)
  /\ UNCHANGED <<handles, annVars, eqVars, refVars, protoVars>>

PushLoad      == Push(NewLoad("a", "t"), "new", 0)
PushStore     == Push(NewStore("a", "t"), "new", 0)
PushIntrinsic == Push(NewIntrinsic, "new", 0)
PushSpecial   == Push(NewSpecial, "new", 0)
PushBlock     == Push(NewBlock, "new", 0)
PushConstantInt ==
  \E v \in IntVals, mem \in Garbage : Push(NewConstantInt("a", v, mem), "Constant(int64_t)", v)
PushConstantFloat ==
  \E v \in FloatVals, mem \in Garbage : Push(NewConstantFloat("a", v, mem), "Constant(double)", v)

\* A holder copies its handle into stmts (a pass staging a replacement).
InsertHandle(n) ==
  /\ handles[n] > 0
  /\ Len(stmts) < MaxStmts
  /\ stmts' = Append(stmts, n)
  /\ last' = NoEvent
  /\ UNCHANGED <<heap, handles, made, annVars, eqVars, refVars, protoVars>>

\* stmts.erase(stmts.begin() + i - 1)
Remove(i) ==
  /\ i \in 1..Len(stmts)
  /\ stmts' = RemoveAt(stmts, i)
  /\ heap' = Reclaim(heap, stmts', handles)
  /\ made' = [n \in Nodes |-> IF heap'[n] = Free THEN 0 ELSE made[n]]
  /\ last' = Event("remove", "", stmts[i], heap[stmts[i]], 0, 0)
  /\ UNCHANGED <<handles, annVars, eqVars, refVars, protoVars>>

\* A pass copies stmts[i] into a structure of its own (a worklist).
Acquire(i) ==
  /\ i \in 1..Len(stmts)
  /\ Held(handles) < MaxHandles
  /\ handles' = [handles EXCEPT ![stmts[i]] = @ + 1]
  /\ last' = NoEvent
  /\ UNCHANGED <<heap, stmts, made, annVars, eqVars, refVars, protoVars>>

\* A holder outside stmts drops its handle.
Release(n) ==
  /\ handles[n] > 0
  /\ handles' = [handles EXCEPT ![n] = @ - 1]
  /\ heap' = Reclaim(heap, stmts, handles')
  /\ made' = [m \in Nodes |-> IF heap'[m] = Free THEN 0 ELSE made[m]]
  /\ last' = Event("release", "", n, heap[n], 0, 0)
  /\ UNCHANGED <<stmts, annVars, eqVars, refVars, protoVars>>

\* K::Downcast(stmt) on a handle some holder has.  The caller either looks
\* at the handle it gets back and drops it, or keeps it (keep).
DowncastStmt(K, n, keep) ==
  /\ heap[n] # Free
  /\ LET out == DowncastTo(K, heap, n) IN
       /\ keep => out # TypeMismatch /\ Held(handles) < MaxHandles
       /\ last' = Event("Downcast", K, n, heap[n], out, 0)
       /\ handles' = IF keep THEN [handles EXCEPT ![out] = @ + 1] ELSE handles
  /\ UNCHANGED <<heap, stmts, made, annVars, eqVars, refVars, protoVars>>

\* The string field of a statement a pass may rewrite in place.
NameField(obj) == IF obj.cls \in {"Load", "Store"} THEN "from" ELSE "name"

\* A pass edits a field of a statement through a handle: s->name = v.
Edit(n, v) ==
  /\ heap[n] # Free
  /\ heap[n][NameField(heap[n])] # v
  /\ heap' = [heap EXCEPT ![n] = [@ EXCEPT ![NameField(@)] = v]]
  /\ last' = NoEvent
  /\ UNCHANGED <<stmts, handles, made, annVars, eqVars, refVars, protoVars>>

\* Each specification runs one part of the program; the state of the other
\* parts stays as it is here.
IdleAnn   == anns = <<>> /\ annLast = <<>>
IdleEq    == eqIn = <<>> /\ eqOut = <<>>
IdleRefs  == refs = <<>> /\ refsLast = <<>>
IdleProto == blk = <<>> /\ wire = <<>> /\ dec = <<>>
IdleHeap  == heap = <<>> /\ stmts = <<>> /\ handles = <<>> /\ made = <<>> /\ last = <<>>

InitHeap ==
  /\ heap = [n \in Nodes |-> Free]
  /\ stmts = <<>>
  /\ handles = [n \in Nodes |-> 0]
  /\ made = [n \in Nodes |-> 0]
  /\ last = NoEvent

Init == InitHeap /\ IdleAnn /\ IdleEq /\ IdleRefs /\ IdleProto

(* A pass that builds a block's body, rewrites statements in place and   *)
(* dispatches on their kind.                                             *)
Next ==
  \/ PushLoad
  \/ PushStore
  \/ PushIntrinsic
  \/ PushSpecial
  \/ PushBlock
  \/ PushConstantInt
  \/ PushConstantFloat
  \/ \E n \in Nodes, v \in Names : Edit(n, v)
  \/ \E K \in StmtClasses, n \in Nodes : DowncastStmt(K, n, FALSE)

Spec == Init /\ [][Next]_vars

(* Holders of statement nodes: the block's stmts, worklists, and the     *)
(* handles Downcast returns.                                             *)
NextOwn ==
  \/ PushLoad
  \/ PushStore
  \/ PushBlock
  \/ \E n \in Nodes : InsertHandle(n)
  \/ \E i \in 1..MaxStmts : Remove(i)
  \/ \E i \in 1..MaxStmts : Acquire(i)
  \/ \E n \in Nodes : Release(n)
  \/ \E K \in StmtClasses, n \in Nodes, keep \in BOOLEAN : DowncastStmt(K, n, keep)

SpecOwn == Init /\ [][NextOwn]_vars

----------------------------------------------------------------------------
(* The annotation extension point: Block::annotations and                  *)
(* BoolAnnotation::Downcast.                                               *)

AnnNames == {"x", "y", "z"}

\* No entry under a key of Block::annotations.
NoAnn == [cls |-> "none"]

\* An object of the base type itself, or of a variant a pass defines: all
\* that is known of it is that it is an Annotation (no kind tag).
NewAnnotation == [cls |-> "Annotation"]

\* A plausible slip: the initializer list stores a constant, not the argument.
NewBoolAnnotationMutant(value) == [cls |-> "BoolAnnotation", value |-> FALSE]

\* explicit BoolAnnotation(bool value) : value(value)
NewBoolAnnotation(value) == [cls |-> "BoolAnnotation", value |-> value]

\* The null shared_ptr a failed annotation downcast returns.
AnnTypeMismatch == "null"

\* BoolAnnotation::Downcast(ann): a handle to the same object when its
\* runtime type is BoolAnnotation, the null handle otherwise.  The handle
\* of the object stored under a key is that key.
BoolAnnotationDowncast(as, key) ==
  IF as[key].obj.cls = "BoolAnnotation" THEN key ELSE AnnTypeMismatch

NoAnnEvent == [op |-> "none", key |-> "", out |-> ""]

\* annotations[key] = std::make_shared<BoolAnnotation>(value); ctor is what
\* the caller passed to the constructor.
SetBoolAnnotation(key, value) ==
  /\ anns[key].obj # NewBoolAnnotation(value)
  /\ anns' = [anns EXCEPT ![key] = [obj |-> NewBoolAnnotation(value), ctor |-> value]]
  /\ annLast' = NoAnnEvent
  /\ UNCHANGED <<heapVars, eqVars, refVars, protoVars>>

\* annotations[key] = an annotation that is no BoolAnnotation.
SetOtherAnnotation(key) ==
  /\ anns[key].obj # NewAnnotation
  /\ anns' = [anns EXCEPT ![key] = [obj |-> NewAnnotation, ctor |-> FALSE]]
  /\ annLast' = NoAnnEvent
  /\ UNCHANGED <<heapVars, eqVars, refVars, protoVars>>

\* annotations.erase(key)
EraseAnnotation(key) ==
  /\ anns[key].obj # NoAnn
  /\ anns' = [anns EXCEPT ![key] = [obj |-> NoAnn, ctor |-> FALSE]]
  /\ annLast' = NoAnnEvent
  /\ UNCHANGED <<heapVars, eqVars, refVars, protoVars>>

\* BoolAnnotation::Downcast(annotations.at(key))
DowncastAnnotation(key) ==
  /\ anns[key].obj # NoAnn
  /\ annLast' = [op |-> "Downcast", key |-> key, out |-> BoolAnnotationDowncast(anns, key)]
  /\ UNCHANGED <<anns, heapVars, eqVars, refVars, protoVars>>

InitAnn ==
  /\ anns = [k \in AnnNames |-> [obj |-> NoAnn, ctor |-> FALSE]]
  /\ annLast = NoAnnEvent
  /\ IdleHeap /\ IdleEq /\ IdleRefs /\ IdleProto

NextAnn ==
  \/ \E k \in AnnNames, v \in BOOLEAN : SetBoolAnnotation(k, v)
  \/ \E k \in AnnNames : SetOtherAnnotation(k)
  \/ \E k \in AnnNames : EraseAnnotation(k)
  \/ \E k \in AnnNames : DowncastAnnotation(k)

SpecAnn == InitAnn /\ [][NextAnn]_vars

----------------------------------------------------------------------------
(* Index, Constraint, BufferAccess and their operator==.                   *)

MaxLen == 2   \* longest lhs / strides vector

Coeffs == {0, 1}
Strides == {1, 2}

\* All sequences over S of length at most n.
SeqsUpTo(S, n) == UNION {[1..k -> S] : k \in 0..n}

\* A plausible slip: the initializer list leaves factor out (it stays 0).
NewIndexMutant(name, range, factor) == [name |-> name, range |-> range, factor |-> 0]

\* Index(name, range, factor) : name(name), range(range), factor(factor)
NewIndex(name, range, factor) == [name |-> name, range |-> range, factor |-> factor]

\* Constraint(lhs, rhs) : lhs(lhs), rhs(rhs)
NewConstraint(lhs, rhs) == [lhs |-> lhs, rhs |-> rhs]

\* A plausible slip: the initializer list leaves strides out (it stays empty).
NewBufferAccessMutant(offset, strides) == [offset |-> offset, strides |-> <<>>]

\* BufferAccess(offset, strides) : offset(offset), strides(strides)
NewBufferAccess(offset, strides) == [offset |-> offset, strides |-> strides]

\* operator== of std::vector<int64_t>: same size, same elements in order.
VectorEq(u, v) == Len(u) = Len(v) /\ \A i \in 1..Len(u) : u[i] = v[i]

\* bool operator==(const Index& lhs, const Index& rhs)
IndexEq(lhs, rhs) ==
  lhs.name = rhs.name /\ lhs.range = rhs.range /\ lhs.factor = rhs.factor

\* bool operator==(const Constraint& lhs, const Constraint& rhs)
ConstraintEq(lhs, rhs) == VectorEq(lhs.lhs, rhs.lhs) /\ lhs.rhs = rhs.rhs

\* bool operator==(const BufferAccess& lhs, const BufferAccess& rhs)
BufferAccessEq(lhs, rhs) == lhs.offset = rhs.offset /\ VectorEq(lhs.strides, rhs.strides)

IndexArgs      == {"i", "j"} \X {0, 1, 4} \X {1, 2}
ConstraintArgs == SeqsUpTo(Coeffs, MaxLen) \X {0, 3}
AccessArgs     == {0, 1} \X SeqsUpTo(Strides, MaxLen)

NoResult == [type |-> "none"]

CompareIndex ==
  /\ eqIn.type = "Index" /\ eqOut.type = "none"
  /\ LET x == NewIndex(eqIn.a[1], eqIn.a[2], eqIn.a[3])
         y == NewIndex(eqIn.b[1], eqIn.b[2], eqIn.b[3])
     IN  eqOut' = [type |-> "Index", x |-> x, y |-> y, r |-> IndexEq(x, y)]
  /\ UNCHANGED <<eqIn, heapVars, annVars, refVars, protoVars>>

CompareConstraint ==
  /\ eqIn.type = "Constraint" /\ eqOut.type = "none"
  /\ LET x == NewConstraint(eqIn.a[1], eqIn.a[2])
         y == NewConstraint(eqIn.b[1], eqIn.b[2])
     IN  eqOut' = [type |-> "Constraint", x |-> x, y |-> y, r |-> ConstraintEq(x, y)]
  /\ UNCHANGED <<eqIn, heapVars, annVars, refVars, protoVars>>

CompareBufferAccess ==
  /\ eqIn.type = "BufferAccess" /\ eqOut.type = "none"
  /\ LET x == NewBufferAccess(eqIn.a[1], eqIn.a[2])
         y == NewBufferAccess(eqIn.b[1], eqIn.b[2])
     IN  eqOut' = [type |-> "BufferAccess", x |-> x, y |-> y, r |-> BufferAccessEq(x, y)]
  /\ UNCHANGED <<eqIn, heapVars, annVars, refVars, protoVars>>

InitEq ==
  /\ \/ \E a \in IndexArgs, b \in IndexArgs :
          eqIn = [type |-> "Index", a |-> a, b |-> b]
     \/ \E a \in ConstraintArgs, b \in ConstraintArgs :
          eqIn = [type |-> "Constraint", a |-> a, b |-> b]
     \/ \E a \in AccessArgs, b \in AccessArgs :
          eqIn = [type |-> "BufferAccess", a |-> a, b |-> b]
  /\ eqOut = NoResult
  /\ IdleHeap /\ IdleAnn /\ IdleRefs /\ IdleProto

NextEq == CompareIndex \/ CompareConstraint \/ CompareBufferAccess

SpecEq == InitEq /\ [][NextEq]_vars

----------------------------------------------------------------------------
(* Block::refs with ref_ins() and ref_outs().                              *)

MaxRefs == 3   \* length of Block::refs

(* enum class RefDir. *)
RefDir_In    == 0
RefDir_Out   == 1
RefDir_InOut == 2

RefDir == {RefDir_In, RefDir_Out, RefDir_InOut}
Views  == {"o", "p"}

\* A Refinement (an aggregate: no constructor) as a pass fills it in.
NewRefinement(dir, into) ==
  [dir |-> dir, from |-> "buf", into |-> into,
   access |-> NewBufferAccess(0, <<1>>), shape |-> "f32(4)",
   agg_op |-> IF dir = RefDir_In THEN "" ELSE "sum"]

\* The pointers (positions in rs) to the entries from i on whose dir is in dirs.
RECURSIVE RefsWithDir(_, _, _)
RefsWithDir(rs, dirs, i) ==
  IF i > Len(rs) THEN <<>>
  ELSE (IF rs[i].dir \in dirs THEN <<i>> ELSE <<>>) \o RefsWithDir(rs, dirs, i + 1)

\* A plausible slip: only the In entries are collected.
ref_insMutant(rs) == RefsWithDir(rs, {RefDir_In}, 1)

\* std::vector<const Refinement*> Block::ref_ins() const
ref_ins(rs) == RefsWithDir(rs, {RefDir_In, RefDir_InOut}, 1)

\* std::vector<const Refinement*> Block::ref_outs() const
ref_outs(rs) == RefsWithDir(rs, {RefDir_Out, RefDir_InOut}, 1)

NoQuery == [op |-> "none", before |-> <<>>, out |-> <<>>]

\* refs.push_back(ref)
AddRef(dir, into) ==
  /\ Len(refs) < MaxRefs
  /\ refs' = Append(refs, NewRefinement(dir, into))
  /\ refsLast' = NoQuery
  /\ UNCHANGED <<heapVars, annVars, eqVars, protoVars>>

\* refs.erase(refs.begin() + i - 1)
EraseRef(i) ==
  /\ i \in 1..Len(refs)
  /\ refs' = SubSeq(refs, 1, i - 1) \o SubSeq(refs, i + 1, Len(refs))
  /\ refsLast' = NoQuery
  /\ UNCHANGED <<heapVars, annVars, eqVars, protoVars>>

\* block.ref_ins(): a const method.
CallRefIns ==
  /\ refsLast' = [op |-> "ref_ins", before |-> refs, out |-> ref_ins(refs)]
  /\ UNCHANGED <<refs, heapVars, annVars, eqVars, protoVars>>

\* block.ref_outs(): a const method.
CallRefOuts ==
  /\ refsLast' = [op |-> "ref_outs", before |-> refs, out |-> ref_outs(refs)]
  /\ UNCHANGED <<refs, heapVars, annVars, eqVars, protoVars>>

InitRefs ==
  /\ refs = <<>>
  /\ refsLast = NoQuery
  /\ IdleHeap /\ IdleAnn /\ IdleEq /\ IdleProto

NextRefs ==
  \/ \E d \in RefDir, v \in Views : AddRef(d, v)
  \/ \E i \in 1..MaxRefs : EraseRef(i)
  \/ CallRefIns
  \/ CallRefOuts

SpecRefs == InitRefs /\ [][NextRefs]_vars

----------------------------------------------------------------------------
(* The serialization bridge: IntoProto and FromProto over the Block tree.  *)

MaxSize  == 2   \* elements (idxs, constraints, decls, refs, annotations, leaf statements) of a tree
MaxDepth == 2   \* nesting depth of Block statements

\* The number of elements of a tree.
RECURSIVE SizeFrom(_, _)
Size(b) ==
  Len(b.idxs) + Len(b.constraints) + Cardinality(DOMAIN b.decls) + Len(b.refs)
    + Cardinality(DOMAIN b.annotations) + SizeFrom(b.stmts, 1)
SizeFrom(ss, i) ==
  IF i > Len(ss) THEN 0
  ELSE (IF ss[i].cls = "Block" THEN Size(ss[i]) ELSE 1) + SizeFrom(ss, i + 1)

\* The nesting depth of a tree.
RECURSIVE Depth(_)
Depth(b) ==
  LET inner == {i \in 1..Len(b.stmts) : b.stmts[i].cls = "Block"}
      ds == {Depth(b.stmts[i]) : i \in inner}
  IN  1 + (IF ds = {} THEN 0 ELSE CHOOSE d \in ds : \A e \in ds : e <= d)

\* Section 3's invariant on constraints: each lhs has len(idxs) entries, in
\* every block of the tree.
RECURSIVE ArityOk(_)
ArityOk(b) ==
  /\ \A i \in 1..Len(b.constraints) : Len(b.constraints[i].lhs) = Len(b.idxs)
  /\ \A i \in 1..Len(b.stmts) : b.stmts[i].cls = "Block" => ArityOk(b.stmts[i])

(* The wire form.  A map is a set of entries, a statement a oneof with its  *)
(* op_case, a refinement's dir an enum whose 0 is "unset", a constant's     *)
(* value a oneof, an annotation a typed payload.                            *)

RefDirIntoProto(dir) == dir + 1
RefDirFromProto(d)   == d - 1

RefIntoProto(r) ==
  [dir |-> RefDirIntoProto(r.dir), from |-> r.from, into |-> r.into,
   access |-> <<r.access.offset, r.access.strides>>, shape |-> r.shape,
   agg_op |-> r.agg_op]

RefFromProto(m) ==
  [dir |-> RefDirFromProto(m.dir), from |-> m.from, into |-> m.into,
   access |-> NewBufferAccess(m.access[1], m.access[2]), shape |-> m.shape,
   agg_op |-> m.agg_op]

AnnIntoProto(k, a) == [key |-> k, type_url |-> a.cls, value |-> a.value]

RECURSIVE IntoProto(_)
RECURSIVE FromProto(_, _)

IntoProtoStmt(s) ==
  CASE s.cls = "Load" ->
         [op_case |-> "load", load |-> <<s.from, s.into>>]
    [] s.cls = "Store" ->
         [op_case |-> "store", store |-> <<s.from, s.into>>]
    [] s.cls = "Constant" ->
         IF s.type = ConstType_Integer
           THEN [op_case |-> "constant",
                 constant |-> [name |-> s.name, value_case |-> "iconst", value |-> s.iconst]]
           ELSE [op_case |-> "constant",
                 constant |-> [name |-> s.name, value_case |-> "fconst", value |-> s.fconst]]
    [] s.cls = "Intrinsic" ->
         [op_case |-> "intrinsic", intrinsic |-> <<s.name, s.inputs, s.outputs>>]
    [] s.cls = "Special" ->
         [op_case |-> "special", special |-> <<s.name, s.params, s.inputs, s.outputs>>]
    [] s.cls = "Block" ->
         [op_case |-> "block", block |-> IntoProto(s)]

\* proto::Block IntoProto(const Block& block)
IntoProto(block) ==
  [name |-> block.name,
   comments |-> block.comments,
   idxs |-> [i \in 1..Len(block.idxs) |->
               <<block.idxs[i].name, block.idxs[i].range, block.idxs[i].factor>>],
   constraints |-> [i \in 1..Len(block.constraints) |->
               <<block.constraints[i].lhs, block.constraints[i].rhs>>],
   decls |-> {[key |-> k, value |-> block.decls[k]] : k \in DOMAIN block.decls},
   refs |-> [i \in 1..Len(block.refs) |-> RefIntoProto(block.refs[i])],
   stmts |-> [i \in 1..Len(block.stmts) |-> IntoProtoStmt(block.stmts[i])],
   annotations |-> {AnnIntoProto(k, block.annotations[k]) : k \in DOMAIN block.annotations}]

\* What a failed FromProto leaves the caller with: no Block, MalformedIR.
MalformedIR == [cls |-> "MalformedIR"]

\* One statement of the oneof, built through its type's constructor; mem is
\* what the memory of a new Constant holds.
FromProtoStmt(m, mem) ==
  CASE m.op_case = "load"  -> NewLoad(m.load[1], m.load[2])
    [] m.op_case = "store" -> NewStore(m.store[1], m.store[2])
    [] m.op_case = "constant" ->
         IF m.constant.value_case = "iconst"
           THEN NewConstantInt(m.constant.name, m.constant.value, mem)
           ELSE NewConstantFloat(m.constant.name, m.constant.value, mem)
    [] m.op_case = "intrinsic" ->
         [NewIntrinsic EXCEPT !.name = m.intrinsic[1], !.inputs = m.intrinsic[2],
                              !.outputs = m.intrinsic[3]]
    [] m.op_case = "special" ->
         [NewSpecial EXCEPT !.name = m.special[1], !.params = m.special[2],
                            !.inputs = m.special[3], !.outputs = m.special[4]]
    [] m.op_case = "block" -> FromProto(m.block, mem)

\* The Block a wire message decodes to, its statements given.
Decoded(w, ss) ==
  [NewBlock EXCEPT
     !.name = w.name,
     !.comments = w.comments,
     !.idxs = [i \in 1..Len(w.idxs) |-> NewIndex(w.idxs[i][1], w.idxs[i][2], w.idxs[i][3])],
     !.constraints = [i \in 1..Len(w.constraints) |->
                        NewConstraint(w.constraints[i][1], w.constraints[i][2])],
     !.decls = [k \in {e.key : e \in w.decls} |->
                  (CHOOSE e \in w.decls : e.key = k).value],
     !.refs = [i \in 1..Len(w.refs) |-> RefFromProto(w.refs[i])],
     !.stmts = ss,
     !.annotations = [k \in {e.key : e \in w.annotations} |->
                        NewBoolAnnotation((CHOOSE e \in w.annotations : e.key = k).value)]]

\* A plausible slip: the message is decoded as it comes, nothing is checked.
FromProtoMutant(w, mem) ==
  Decoded(w, [i \in 1..Len(w.stmts) |-> FromProtoStmt(w.stmts[i], mem)])

\* Block FromProto(const proto::Block& block): fails when a constraint's
\* coefficient count disagrees with its block's index count, in this block
\* or in a nested one; decodes the message otherwise.
FromProto(w, mem) ==
  LET ss == [i \in 1..Len(w.stmts) |-> FromProtoStmt(w.stmts[i], mem)] IN
    IF \/ \E i \in 1..Len(w.constraints) : Len(w.constraints[i][1]) # Len(w.idxs)
       \/ \E i \in 1..Len(ss) : ss[i] = MalformedIR
      THEN MalformedIR
      ELSE Decoded(w, ss)

\* Whether a wire message keeps the constraint arity in each of its blocks.
RECURSIVE WireArityOk(_)
WireArityOk(w) ==
  /\ \A i \in 1..Len(w.constraints) : Len(w.constraints[i][1]) = Len(w.idxs)
  /\ \A i \in 1..Len(w.stmts) :
       w.stmts[i].op_case = "block" => WireArityOk(w.stmts[i].block)

(* A pass builds the tree by direct edits of the root block's fields. *)

IdxNames == <<"i", "j", "k", "l", "m", "n">>
Ones(n)  == [i \in 1..n |-> 1]

LeafStmts ==
  {NewLoad("a", "t"), NewStore("t", "b")}
  \cup {NewConstantInt("c", 5, mem) : mem \in Garbage}
  \cup {NewConstantFloat("c", 25, mem) : mem \in Garbage}
  \cup {
   [NewIntrinsic EXCEPT !.name = "add", !.inputs = <<"t", "c">>, !.outputs = <<"u">>],
   [NewSpecial EXCEPT !.name = "gather", !.params = <<"p">>, !.inputs = <<"t">>,
                      !.outputs = <<"u">>]}

NoWire == [state |-> "none"]
NoDec  == [state |-> "none"]

Editable == wire = NoWire /\ Size(blk) < MaxSize

Edited(b) ==
  /\ blk' = b
  /\ UNCHANGED <<wire, dec, heapVars, annVars, eqVars, refVars>>

\* idxs.push_back(Index(...)); the constraints get a zero coefficient for it.
AddIdx ==
  /\ Editable
  /\ Edited([blk EXCEPT
       !.idxs = Append(@, NewIndex(IdxNames[Len(@) + 1], 4, 1)),
       !.constraints = [i \in 1..Len(@) |-> NewConstraint(Append(@[i].lhs, 0), @[i].rhs)]])

\* constraints.push_back(Constraint(lhs, rhs)): nothing stops a caller from
\* giving an lhs of the wrong length.
AddConstraint(n) ==
  /\ Editable
  /\ Edited([blk EXCEPT !.constraints = Append(@, NewConstraint(Ones(n), 3))])

\* decls.emplace(name, shape)
AddDecl(name) ==
  /\ Editable
  /\ name \notin DOMAIN blk.decls
  /\ Edited([blk EXCEPT !.decls = [k \in DOMAIN @ \cup {name} |->
                                     IF k = name THEN "f32(4)" ELSE @[k]]])

\* refs.push_back(ref)
AddRefinement(dir) ==
  /\ Editable
  /\ Edited([blk EXCEPT !.refs = Append(@, NewRefinement(dir, "o"))])

\* stmts.push_back(std::make_shared<...>(...))
AddStmt(s) ==
  /\ Editable
  /\ Edited([blk EXCEPT !.stmts = Append(@, s)])

\* annotations.emplace(key, std::make_shared<BoolAnnotation>(value))
Annotate(key, value) ==
  /\ Editable
  /\ key \notin DOMAIN blk.annotations
  /\ Edited([blk EXCEPT !.annotations = [k \in DOMAIN @ \cup {key} |->
                                           IF k = key THEN NewBoolAnnotation(value)
                                                      ELSE @[k]]])

\* The tree becomes the one statement of a new outer block.
Nest ==
  /\ wire = NoWire
  /\ Depth(blk) < MaxDepth
  /\ Edited([NewBlock EXCEPT !.name = "outer", !.stmts = <<blk>>])

\* wire = IntoProto(block)
Encode ==
  /\ wire = NoWire
  /\ wire' = [state |-> "sent", msg |-> IntoProto(blk)]
  /\ UNCHANGED <<blk, dec, heapVars, annVars, eqVars, refVars>>

\* FromProto(wire)
Decode ==
  /\ wire # NoWire
  /\ dec = NoDec
  /\ \E mem \in Garbage : dec' = [state |-> "done", result |-> FromProto(wire.msg, mem)]
  /\ UNCHANGED <<blk, wire, heapVars, annVars, eqVars, refVars>>

InitProto ==
  /\ blk = NewBlock
  /\ wire = NoWire
  /\ dec = NoDec
  /\ IdleHeap /\ IdleAnn /\ IdleEq /\ IdleRefs

NextProto ==
  \/ AddIdx
  \/ \E n \in {Len(blk.idxs), Len(blk.idxs) + 1} : AddConstraint(n)
  \/ AddDecl("buf")
  \/ \E d \in RefDir : AddRefinement(d)
  \/ \E s \in LeafStmts : AddStmt(s)
  \/ \E v \in BOOLEAN : Annotate("x", v)
  \/ Nest
  \/ Encode
  \/ Decode

SpecProto == InitProto /\ [][NextProto]_vars

----------------------------------------------------------------------------
(* Properties.                                                             *)

\* C3: after ref_ins() (ref_outs()) the result points, in the order of
\* refs and without repetition, at exactly the entries of the block's refs
\* whose dir is In or InOut (Out or InOut), so an InOut entry is in both
\* results and an empty refs gives an empty result; the call left refs as
\* it was.
C3_RefInsOuts ==
  refsLast.op \in {"ref_ins", "ref_outs"} =>
    LET want == IF refsLast.op = "ref_ins" THEN {RefDir_In, RefDir_InOut}
                                         ELSE {RefDir_Out, RefDir_InOut}
        out  == refsLast.out
    IN  /\ refs = refsLast.before
        /\ \A j \in 1..Len(out) : out[j] \in 1..Len(refs) /\ refs[out[j]].dir \in want
        /\ \A i \in 1..Len(refs) : refs[i].dir \in want => \E j \in 1..Len(out) : out[j] = i
        /\ \A j, k \in 1..Len(out) : j < k => out[j] < out[k]
        /\ (refs = <<>> => out = <<>>)

\* A block holding an Out, an InOut and an In refinement, in that order, whose
\* ref_ins() returned the second and the third.
C3_Witness ==
  /\ refsLast.op = "ref_ins"
  /\ Len(refs) = 3
  /\ refs[1].dir = RefDir_Out /\ refs[2].dir = RefDir_InOut /\ refs[3].dir = RefDir_In
  /\ refsLast.out = <<2, 3>>

\* C5: operator== on two Index values is true iff the names, the ranges and
\* the factors they were constructed with are equal (a range of 0 or 1 is
\* compared like any other); on two Constraint values it is true iff the rhs
\* are equal and the lhs have the same length and the same elements in the
\* same order, so lhs of different lengths are never equal.
C5_IndexConstraintEq ==
  /\ eqOut.type = "Index" =>
       (eqOut.r <=> /\ eqIn.a[1] = eqIn.b[1]
                    /\ eqIn.a[2] = eqIn.b[2]
                    /\ eqIn.a[3] = eqIn.b[3])
  /\ eqOut.type = "Constraint" =>
       /\ eqOut.r <=> /\ eqIn.a[2] = eqIn.b[2]
                      /\ Len(eqIn.a[1]) = Len(eqIn.b[1])
                      /\ \A i \in 1..Len(eqIn.a[1]) : eqIn.a[1][i] = eqIn.b[1][i]
       /\ Len(eqIn.a[1]) # Len(eqIn.b[1]) => ~eqOut.r

\* Constraint([1], 3) against Constraint([1, 0], 3): unequal, although they
\* differ by a trailing zero only.
C5_Witness ==
  /\ eqOut.type = "Constraint"
  /\ eqIn.a = <<(<<1>>), 3>> /\ eqIn.b = <<(<<1, 0>>), 3>>
  /\ eqOut.r = FALSE

\* C6: operator== on two BufferAccess values is true iff the offsets they
\* were constructed with are equal and the strides have the same length and
\* the same elements in the same order.
C6_BufferAccessEq ==
  eqOut.type = "BufferAccess" =>
    (eqOut.r <=> /\ eqIn.a[1] = eqIn.b[1]
                 /\ Len(eqIn.a[2]) = Len(eqIn.b[2])
                 /\ \A i \in 1..Len(eqIn.a[2]) : eqIn.a[2][i] = eqIn.b[2][i])

\* BufferAccess(0, [1, 2]) against BufferAccess(0, [2, 1]): unequal.
C6_Witness ==
  /\ eqOut.type = "BufferAccess"
  /\ eqIn.a = <<0, (<<1, 2>>)>> /\ eqIn.b = <<0, (<<2, 1>>)>>
  /\ eqOut.r = FALSE

\* C7: BoolAnnotation::Downcast of an annotation that is a BoolAnnotation
\* returns a handle to that annotation, through which the value it was
\* constructed with is read; of any other annotation it returns the
\* TypeMismatch handle.
C7_BoolAnnotationDowncast ==
  annLast.op = "Downcast" =>
    LET a == anns[annLast.key] IN
      /\ a.obj.cls = "BoolAnnotation" =>
           /\ annLast.out = annLast.key
           /\ anns[annLast.out].obj.value = a.ctor
      /\ a.obj.cls # "BoolAnnotation" => annLast.out = AnnTypeMismatch

\* A block with a BoolAnnotation(true) under one key, a downcast of which
\* succeeded, beside an annotation of another type under another key.
C7_Witness ==
  /\ annLast.op = "Downcast"
  /\ annLast.out = annLast.key
  /\ anns[annLast.key].obj = NewBoolAnnotation(TRUE)
  /\ \E k \in AnnNames : anns[k].obj = NewAnnotation

\* C1: K::Downcast(s) returns a handle to s itself, with s's fields as they
\* were, when s.kind() is K's tag, and the TypeMismatch handle when it is
\* not; a handle it returns is never one to a statement of another type.
C1_DowncastSound ==
  last.op = "Downcast" =>
    /\ kind(heap[last.node]) = TagOf(last.K) =>
         last.out = last.node /\ heap[last.out] = last.before
    /\ kind(heap[last.node]) # TagOf(last.K) => last.out = TypeMismatch
    /\ last.out # TypeMismatch => heap[last.out].cls = last.K

\* Intrinsic::Downcast of a statement that is a Constant with iconst 5 failed.
C1_Witness ==
  /\ last.op = "Downcast" /\ last.K = "Intrinsic"
  /\ heap[last.node].cls = "Constant"
  /\ heap[last.node].type = ConstType_Integer /\ heap[last.node].iconst = 5
  /\ last.out = TypeMismatch

\* Structural equality of statements and blocks (section 8): field for
\* field, a Constant by its name, its type and the value member its type
\* selects, a nested Block recursively.
RECURSIVE BlockEq(_, _)
StmtEq(s, t) ==
  /\ s.cls = t.cls
  /\ CASE s.cls = "Constant" ->
            /\ s.name = t.name
            /\ s.type = t.type
            /\ IF s.type = ConstType_Integer THEN s.iconst = t.iconst
                                             ELSE s.fconst = t.fconst
       [] s.cls = "Block" -> BlockEq(s, t)
       [] OTHER -> s = t
RefinementEq(r, q) ==
  /\ r.dir = q.dir /\ r.from = q.from /\ r.into = q.into
  /\ BufferAccessEq(r.access, q.access)
  /\ r.shape = q.shape /\ r.agg_op = q.agg_op
BlockEq(a, b) ==
  /\ a.name = b.name
  /\ Len(a.idxs) = Len(b.idxs)
  /\ \A i \in 1..Len(a.idxs) : IndexEq(a.idxs[i], b.idxs[i])
  /\ Len(a.constraints) = Len(b.constraints)
  /\ \A i \in 1..Len(a.constraints) : ConstraintEq(a.constraints[i], b.constraints[i])
  /\ a.decls = b.decls
  /\ Len(a.refs) = Len(b.refs)
  /\ \A i \in 1..Len(a.refs) : RefinementEq(a.refs[i], b.refs[i])
  /\ Len(a.stmts) = Len(b.stmts)
  /\ \A i \in 1..Len(a.stmts) : StmtEq(a.stmts[i], b.stmts[i])
  /\ a.annotations = b.annotations

C8_KindTags ==
  /\ [](\A n \in Nodes : heap[n] # Free =>
          /\ kind(heap[n]) = TagOf(heap[n].cls)
          /\ \A m \in Nodes : (heap[m] # Free /\ heap[m].cls # heap[n].cls)
                                => kind(heap[m]) # kind(heap[n]))
  /\ [][\A n \in Nodes : (heap[n] # Free /\ heap'[n] # Free)
                           => kind(heap'[n]) = kind(heap[n])]_vars

\* A Store and an Intrinsic side by side, both with an edited field.
C8_Witness ==
  /\ \E n \in Nodes : heap[n].cls = "Store" /\ heap[n].from = "b"
                        /\ kind(heap[n]) = StmtKind_Store
  /\ \E n \in Nodes : heap[n].cls = "Intrinsic" /\ heap[n].name = "b"
                        /\ kind(heap[n]) = StmtKind_Intrinsic

\* C9: a Constant's type is Integer or Float and the one value member its
\* constructor initialized is the one its type selects; Constant(name,
\* int64_t v) gives type Integer and iconst = v, Constant(name, double v)
\* gives type Float and fconst = v; the handle a successful
\* Constant::Downcast returns shows the value the constant was made with.
C9_ConstantValue ==
  /\ \A n \in Nodes : heap[n].cls = "Constant" =>
       /\ heap[n].type \in {ConstType_Integer, ConstType_Float}
       /\ heap[n].init = IF heap[n].type = ConstType_Integer THEN {"iconst"}
                                                             ELSE {"fconst"}
  /\ last.op = "Constant(int64_t)" =>
       heap[last.node].type = ConstType_Integer /\ heap[last.node].iconst = last.arg
  /\ last.op = "Constant(double)" =>
       heap[last.node].type = ConstType_Float /\ heap[last.node].fconst = last.arg
  /\ (last.op = "Downcast" /\ last.K = "Constant" /\ last.out # TypeMismatch) =>
       LET c == heap[last.out] IN
         /\ c.cls = "Constant"
         /\ (IF c.type = ConstType_Integer THEN c.iconst ELSE c.fconst) = made[last.out]

\* Constant::Downcast of a statement made by Constant(name, 5) succeeded and
\* shows iconst = 5.
C9_Witness ==
  /\ last.op = "Downcast" /\ last.K = "Constant"
  /\ last.out = last.node
  /\ made[last.out] = 5
  /\ heap[last.out].type = ConstType_Integer
  /\ heap[last.out].iconst = 5

\* C10: a node some holder refers to (an entry of stmts, a handle outside
\* it) is alive; a node taken out of stmts, or let go of by one holder, while
\* another holder remains is not destroyed and keeps its fields; a handle
\* Downcast returned is a holder of the node like any other.
C10_SharedOwnership ==
  /\ \A n \in Nodes : UseCount(stmts, handles, n) > 0 => heap[n] # Free
  /\ (last.op \in {"remove", "release"} /\ UseCount(stmts, handles, last.node) > 0)
       => heap[last.node] = last.before
  /\ (last.op = "Downcast" /\ last.out # TypeMismatch)
       => /\ UseCount(stmts, handles, last.out) > 0
          /\ heap[last.out] = last.before

\* A node was removed from stmts, is in stmts no more, and lives on through
\* a handle held outside.
C10_Witness ==
  /\ last.op = "remove"
  /\ Occurrences(stmts, last.node) = 0
  /\ handles[last.node] > 0
  /\ heap[last.node] # Free
  /\ heap[last.node] = last.before

====
